---- MODULE Spec2Model ----
(***************************************************************************)
(* A model of the vaultsync agent (package vaultsync): construction (New, *)
(* loadConfig, createVaultAgent), the receiver registry                    *)
(* (RegisterUpdateSecret, setSecret), Run with its synchronous initial     *)
(* refresh pass, and the two goroutines Run starts (renewAuthToken,        *)
(* renewSecrets).  Goroutines interleave at the points where the Go code   *)
(* calls out (store reads, consumer callbacks, channel waits).             *)
(***************************************************************************)
EXTENDS Integers, Sequences, FiniteSets, TLC

\* ---------------------------------------------------------------- bounds
\* At most MaxRegs calls of RegisterUpdateSecret are made.
MaxRegs == 2

\* ------------------------------------------------------------- universes
Locs == {"L1", "L2"}
Consumers == {"A", "B"}
FieldNames == {"user", "password"}
Values == {"v1", "v2"}
\* The goroutines that call RegisterUpdateSecret.
Regs == {"r1", "r2"}
\* The goroutines that run renewSecretPaths: Run's caller and renewSecrets.
Threads == {"main", "refresh"}
\* The authentication methods createVaultAgent's switch knows.
KnownMethods == {"approle", "ldap", "userpass"}
AuthMethods == KnownMethods \cup {"kerberos"}
\* renew_secrets_period, in seconds (any integer is accepted).
Periods == {0, 1}

VARIABLES
  mainPc,     \* the caller: "start", "newErr", "ready", "run", "returned", "waited"
  proc,       \* the process: "up", or what ended it: "panicConfig", "panicSecret"
              \* (nil dereferences), "fatalMap" (the runtime's map-race throw)
  config,     \* Agent.config: [present, authMethod, period]; nil when not present
  client,     \* Agent.client: [created, token]
  secret,     \* Agent.secret: "nil" or the login's lease
  logins,     \* number of Login calls made to the store
  receivers,  \* SecretSync.receivers: location -> sequence of consumers
  registered, \* location -> consumer -> RegisterUpdateSecret calls that returned
  reg,        \* per registering goroutine: its position inside RegisterUpdateSecret
  pass,       \* per thread: its position inside renewSecretPaths
  cancelled,  \* ctx.Done() is closed
  wg,         \* the WaitGroup counter
  leasePc,    \* renewAuthToken: "none", "watching", "done"
  leaseRet,   \* its return value: "none", "nil", "err"
  watcher,    \* the lifetime watcher: "none", "running", "ended" (nil sent on
              \* DoneCh), "failed" (an error sent on DoneCh), "stopped"
  renewed,    \* a RenewCh event has been handled
  refreshPc,  \* renewSecrets: "none", "idle", "refreshing", "done"
  timer,      \* seconds until timer.C fires (0: fired or consumed)
  late        \* periodic passes begun with ctx.Done() closed: "none", "one", "many"

vars == <<mainPc, proc, config, client, secret, logins, receivers, registered,
          reg, pass,
          cancelled, wg, leasePc, leaseRet, watcher, renewed, refreshPc, timer,
          late>>

\* ------------------------------------------------------------ construction
\* a.config before loadConfig has set it (a nil pointer), and &config{}.
NilConfig == [present |-> FALSE, authMethod |-> "", period |-> 0]
ZeroConfig == [present |-> TRUE, authMethod |-> "", period |-> 0]
NoClient == [created |-> FALSE, token |-> ""]

\* loadConfig: a missing file is not an error and leaves a.config nil; a file
\* that is there is decoded into a fresh config.
loadConfig(exists, decodeOk, cfg) ==
  IF exists
    THEN IF decodeOk THEN [err |-> FALSE, config |-> cfg]
                     ELSE [err |-> TRUE, config |-> ZeroConfig]
    ELSE [err |-> FALSE, config |-> NilConfig]

\* Mutant: the default case logs in like the known methods.
LoginStepAnyMethod(method, authOk, loginOk) ==
  IF ~authOk THEN [err |-> TRUE, logins |-> 0, secret |-> "nil"]
  ELSE IF ~loginOk THEN [err |-> TRUE, logins |-> 1, secret |-> "nil"]
  ELSE [err |-> FALSE, logins |-> 1, secret |-> "lease"]

\* The switch on a.config.Vault.AuthMethod: the three known methods build
\* their auth object and log in; anything else returns an error at once.
LoginStep(method, authOk, loginOk) ==
  IF method \in KnownMethods
    THEN IF ~authOk THEN [err |-> TRUE, logins |-> 0, secret |-> "nil"]
         ELSE IF ~loginOk THEN [err |-> TRUE, logins |-> 1, secret |-> "nil"]
         ELSE [err |-> FALSE, logins |-> 1, secret |-> "lease"]
    ELSE [err |-> TRUE, logins |-> 0, secret |-> "nil"]

\* createVaultAgent: dereferences a.config (a panic when it is nil), creates
\* the client, logs in, extracts the token and binds it to the client.
createVaultAgent(cfg, clientOk, authOk, loginOk, tokenOk) ==
  IF ~cfg.present
    THEN [outcome |-> "panic", client |-> NoClient, secret |-> "nil", logins |-> 0]
  ELSE IF ~clientOk
    THEN [outcome |-> "err", client |-> NoClient, secret |-> "nil", logins |-> 0]
  ELSE LET l == LoginStep(cfg.authMethod, authOk, loginOk) IN
    IF l.err
      THEN [outcome |-> "err", client |-> [created |-> TRUE, token |-> ""],
            secret |-> l.secret, logins |-> l.logins]
    ELSE IF ~tokenOk
      THEN [outcome |-> "err", client |-> [created |-> TRUE, token |-> ""],
            secret |-> l.secret, logins |-> l.logins]
    ELSE [outcome |-> "ok", client |-> [created |-> TRUE, token |-> "tok"],
          secret |-> l.secret, logins |-> l.logins]

\* ---------------------------------------------------------------- registry
\* A goroutine outside RegisterUpdateSecret, and a thread outside
\* renewSecretPaths.
Idle == [pc |-> "idle", id |-> "none", receiver |-> "none", list |-> <<>>]
NoPass == [active |-> FALSE, visited |-> FALSE, owed |-> {}, todo |-> {},
           path |-> "none", fields |-> <<>>, fi |-> 1, calls |-> <<>>,
           grew |-> FALSE]

\* The keys of the receivers map: a key exists once a list was stored for it
\* (a list is never emptied).  receivers[l] of an absent key is the nil slice.
Keys(rcv) == {l \in Locs : rcv[l] # <<>>}

NoneRegistered == [l \in Locs |-> [c \in Consumers |-> 0]]

RECURSIVE SumOver(_, _)
SumOver(f, S) ==
  IF S = {} THEN 0
  ELSE LET x == CHOOSE y \in S : TRUE IN f[x] + SumOver(f, S \ {x})

\* Calls of RegisterUpdateSecret that have returned or are in progress.
InFlight == Cardinality({r \in Regs : reg[r].pc = "loaded"})
Registrations ==
  SumOver([l \in Locs |-> SumOver(registered[l], Consumers)], Locs) + InFlight

\* The Agent exists and the process runs.
AgentLive == proc = "up" /\ mainPc \in {"ready", "run", "returned"}

\* Mutant: a receiver already in the list is not added again.
AppendReceiverOnce(list, receiver) ==
  IF \E i \in 1..Len(list) : list[i] = receiver THEN list
  ELSE Append(list, receiver)

\* append(a.secretSync.receivers[id], receiver)
AppendReceiver(list, receiver) == Append(list, receiver)

\* Mutant: the loop stops after the first receiver.
setSecretFirstOnly(rcv, id, fieldName, value) ==
  [i \in 1..(IF rcv[id] = <<>> THEN 0 ELSE 1) |->
     [receiver |-> rcv[id][i], id |-> id, name |-> fieldName, value |-> value]]

\* Mutant: the receivers get a value kept from an earlier read.
setSecretCached(rcv, id, fieldName, value) ==
  [i \in 1..Len(rcv[id]) |->
     [receiver |-> rcv[id][i], id |-> id, name |-> fieldName, value |-> "v1"]]

\* Mutant: the receivers are called last-registered first.
setSecretReversed(rcv, id, fieldName, value) ==
  [i \in 1..Len(rcv[id]) |->
     [receiver |-> rcv[id][Len(rcv[id]) + 1 - i], id |-> id, name |-> fieldName,
      value |-> value]]

\* setSecret: one UpdateSecret call per entry of receivers[id], in list order.
setSecret(rcv, id, fieldName, value) ==
  [i \in 1..Len(rcv[id]) |->
     [receiver |-> rcv[id][i], id |-> id, name |-> fieldName, value |-> value]]

\* What a.client.Logical().Read can return as secret.Data["data"]: the fields
\* in any order (Go ranges over a map), each with any value.
Orders ==
  {<<>>} \cup {<<n>> : n \in FieldNames}
         \cup {<<p[1], p[2]>> : p \in {q \in FieldNames \X FieldNames : q[1] # q[2]}}
ReadResults(values) ==
  UNION {{[i \in 1..Len(o) |-> [name |-> o[i], value |-> v[o[i]]]] :
            v \in [FieldNames -> values]} : o \in Orders}

\* `for path := range a.secretSync.receivers` starts: the keys to visit.
\* owed keeps the keys the map held then whose loop body has not completed;
\* visited says that the loop body has run for one of them.
BeginPass(rcv) ==
  [active |-> TRUE, visited |-> FALSE, owed |-> Keys(rcv), todo |-> Keys(rcv),
   path |-> "none", fields |-> <<>>, fi |-> 1, calls |-> <<>>, grew |-> FALSE]

\* renewSecretPaths returns: its locals are gone; whether it visited a key
\* and the keys it left unvisited stay on record.
EndPass(ps) == [NoPass EXCEPT !.visited = ps.visited, !.owed = ps.owed]

\* The pass of thread t has visited every key and left the loop.
\* Mutant: the pass counts as over as soon as it has begun.
PassOverEarly(t) == pass[t].active

\* The loop body of thread t is between two keys: every field of the
\* current secret has been handed to setSecret.
BodyDone(t) == pass[t].active /\ pass[t].fi > Len(pass[t].fields)
PassOver(t) == BodyDone(t) /\ pass[t].todo = {}

Init ==
  /\ mainPc = "start"
  /\ proc = "up"
  /\ config = NilConfig
  /\ client = NoClient
  /\ secret = "nil"
  /\ logins = 0
  /\ receivers = [l \in Locs |-> <<>>]
  /\ registered = NoneRegistered
  /\ reg = [r \in Regs |-> Idle]
  /\ pass = [t \in Threads |-> NoPass]
  /\ cancelled = FALSE
  /\ wg = 0
  /\ leasePc = "none"
  /\ leaseRet = "none"
  /\ watcher = "none"
  /\ renewed = FALSE
  /\ refreshPc = "none"
  /\ timer = 0
  /\ late = "none"

\* The process dies (an unrecovered panic, or a fatal error thrown by the Go
\* runtime): every goroutine and the heap are gone.  Only where the caller
\* was, and how the process died, remain.
Crash(kind) ==
  /\ proc' = kind
  /\ config' = NilConfig
  /\ client' = NoClient
  /\ secret' = "nil"
  /\ logins' = 0
  /\ receivers' = [l \in Locs |-> <<>>]
  /\ registered' = NoneRegistered
  /\ reg' = [r \in Regs |-> Idle]
  /\ pass' = [t \in Threads |-> NoPass]
  /\ cancelled' = FALSE
  /\ wg' = 0
  /\ leasePc' = "none"
  /\ leaseRet' = "none"
  /\ watcher' = "none"
  /\ renewed' = FALSE
  /\ refreshPc' = "none"
  /\ timer' = 0
  /\ late' = "none"
  /\ UNCHANGED mainPc

\* New: load the configuration, then create the client and authenticate.
\* Returns (nil, err) when either step returns an error.
New(methods, periods) ==
  /\ mainPc = "start"
  /\ proc = "up"
  /\ \E exists \in BOOLEAN, decodeOk \in BOOLEAN, method \in methods,
        period \in periods, clientOk \in BOOLEAN, authOk \in BOOLEAN,
        loginOk \in BOOLEAN, tokenOk \in BOOLEAN :
       LET lc == loadConfig(exists, decodeOk,
                            [present |-> TRUE, authMethod |-> method,
                             period |-> period])
           cv == createVaultAgent(lc.config, clientOk, authOk, loginOk, tokenOk)
       IN
       IF lc.err
         THEN /\ mainPc' = "newErr"
              /\ config' = lc.config
              /\ UNCHANGED <<proc, client, secret, logins, receivers, registered, reg, pass,
                             cancelled, wg, leasePc, leaseRet, watcher, renewed,
                             refreshPc, timer, late>>
         ELSE IF cv.outcome = "panic"
           THEN Crash("panicConfig")
           ELSE /\ config' = lc.config
                /\ client' = cv.client
                /\ secret' = cv.secret
                /\ logins' = logins + cv.logins
                /\ mainPc' = IF cv.outcome = "ok" THEN "ready" ELSE "newErr"
                /\ UNCHANGED <<proc, receivers, registered, reg, pass, cancelled, wg, leasePc,
                               leaseRet, watcher, renewed, refreshPc, timer, late>>

\* ------------------------------------------------------ RegisterUpdateSecret
\* The right-hand side of the assignment: read a.secretSync.receivers[id].
RegLoad(r, id, receiver) ==
  /\ AgentLive
  /\ reg[r].pc = "idle"
  /\ Registrations < MaxRegs
  /\ reg' = [reg EXCEPT ![r] = [pc |-> "loaded", id |-> id,
                                 receiver |-> receiver, list |-> receivers[id]]]
  /\ UNCHANGED <<mainPc, proc, config, client, secret, logins, receivers, registered, pass,
                 cancelled, wg, leasePc, leaseRet, watcher, renewed, refreshPc, timer, late>>

\* What a store under key id does to the passes in progress: a map range may
\* or may not produce a key added meanwhile (seen: the threads whose range
\* does); grew marks the loop bodies that are working on id.
Stored(ps, id, seen) ==
  [t \in Threads |->
     [ps[t] EXCEPT !.todo = IF t \in seen THEN @ \cup {id} ELSE @,
                   !.grew = @ \/ (ps[t].active /\ ps[t].path = id)]]

\* The assignment: store the appended slice under id, and return.
RegStore(r) ==
  /\ AgentLive
  /\ reg[r].pc = "loaded"
  /\ receivers' = [receivers EXCEPT ![reg[r].id] =
                     AppendReceiver(reg[r].list, reg[r].receiver)]
  /\ reg' = [reg EXCEPT ![r] = Idle]
  /\ \E seen \in SUBSET {t \in Threads : pass[t].active /\ receivers[reg[r].id] = <<>>} :
       pass' = Stored(pass, reg[r].id, seen)
  /\ registered' = [registered EXCEPT ![reg[r].id][reg[r].receiver] = @ + 1]
  /\ UNCHANGED <<mainPc, proc, config, client, secret, logins,
                 cancelled, wg, leasePc, leaseRet, watcher, renewed, refreshPc, timer, late>>

\* The map is written with no lock: a write that overlaps another goroutine's
\* call or a map range can make the Go runtime throw (concurrent map writes,
\* concurrent map iteration and map write), which ends the process.
Racing(r) ==
  \/ \E q \in Regs \ {r} : reg[q].pc = "loaded"
  \/ \E t \in Threads : pass[t].active

RegThrow(r) ==
  /\ AgentLive
  /\ reg[r].pc = "loaded"
  /\ Racing(r)
  /\ Crash("fatalMap")

\* ------------------------------------------------------------ renewSecretPaths
\* The store's answers to Read(path): a failed read (nil secret, the error is
\* dropped) or the secret's fields.
Responses(values) ==
  {[ok |-> FALSE, data |-> <<>>]}
    \cup {[ok |-> TRUE, data |-> d] : d \in ReadResults(values)}

\* The loop body ranges over secret.Data["data"], which panics on a nil secret.
AfterRead(ps, path, res) ==
  IF ~res.ok
    THEN [panic |-> TRUE, pass |-> ps]
    ELSE [panic |-> FALSE,
          pass |-> [ps EXCEPT !.todo = @ \ {path}, !.path = path,
                              !.visited = @ \/ path \in ps.owed,
                              !.owed = IF res.data = <<>> THEN @ \ {path} ELSE @,
                              !.fields = res.data, !.fi = 1, !.calls = <<>>,
                              !.grew = FALSE]]

PassRead(t, values) ==
  /\ proc = "up"
  /\ BodyDone(t)
  /\ \E path \in pass[t].todo, res \in Responses(values) :
       LET a == AfterRead(pass[t], path, res) IN
       IF a.panic
         THEN Crash("panicSecret")
         ELSE /\ pass' = [pass EXCEPT ![t] = a.pass]
              /\ UNCHANGED <<mainPc, proc, config, client, secret, logins, receivers, registered,
                             reg, cancelled, wg, leasePc, leaseRet, watcher, renewed,
                             refreshPc, timer, late>>

\* a.setSecret(path, key, value) for the next field of the secret.
PassCall(t) ==
  /\ proc = "up"
  /\ pass[t].active
  /\ pass[t].fi <= Len(pass[t].fields)
  /\ LET f == pass[t].fields[pass[t].fi] IN
     pass' = [pass EXCEPT ![t].calls =
                @ \o setSecret(receivers, pass[t].path, f.name, f.value),
              ![t].fi = @ + 1,
              ![t].owed = IF pass[t].fi = Len(pass[t].fields)
                            THEN @ \ {pass[t].path} ELSE @]
  /\ UNCHANGED <<mainPc, proc, config, client, secret, logins, receivers, registered, reg,
                 cancelled, wg, leasePc, leaseRet, watcher, renewed, refreshPc, timer, late>>

\* ------------------------------------------------------------------------ Run
\* renewAuthToken up to its select: NewLifetimeWatcher fails when the secret
\* is nil (the function returns, wg.Done() runs), else the watcher is started.
StartLease(sec) ==
  IF sec = "nil"
    THEN [pc |-> "done", ret |-> "err", watcher |-> "none", done |-> 1]
    ELSE [pc |-> "watching", ret |-> "none", watcher |-> "running", done |-> 0]

\* wg.Add(2), the two go statements (each goroutine runs to its select:
\* renewSecrets arms its timer with the configured period), and the call of
\* renewSecretPaths.
RunStart ==
  /\ proc = "up"
  /\ mainPc = "ready"
  /\ mainPc' = "run"
  /\ LET l == StartLease(secret) IN
     /\ wg' = wg + 2 - l.done
     /\ leasePc' = l.pc
     /\ leaseRet' = l.ret
     /\ watcher' = l.watcher
  /\ refreshPc' = "idle"
  /\ timer' = config.period
  /\ pass' = [pass EXCEPT !["main"] = BeginPass(receivers)]
  /\ UNCHANGED <<proc, config, client, secret, logins, receivers, registered, reg, cancelled,
                 renewed, late>>

\* Mutant: Run waits for the two goroutines before it returns.
RunReturnWaits ==
  /\ proc = "up"
  /\ mainPc = "run"
  /\ PassOver("main")
  /\ wg = 0
  /\ mainPc' = "returned"
  /\ pass' = [pass EXCEPT !["main"] = EndPass(pass["main"])]
  /\ UNCHANGED <<proc, config, client, secret, logins, receivers, registered, reg, cancelled, wg,
                 leasePc, leaseRet, watcher, renewed, refreshPc, timer, late>>

\* renewSecretPaths has returned: return nil.
RunReturn ==
  /\ proc = "up"
  /\ mainPc = "run"
  /\ PassOver("main")
  /\ mainPc' = "returned"
  /\ pass' = [pass EXCEPT !["main"] = EndPass(pass["main"])]
  /\ UNCHANGED <<proc, config, client, secret, logins, receivers, registered, reg, cancelled, wg,
                 leasePc, leaseRet, watcher, renewed, refreshPc, timer, late>>

\* The caller's cancel(): ctx exists before Run is called.
Cancel ==
  /\ AgentLive
  /\ ~cancelled
  /\ cancelled' = TRUE
  /\ UNCHANGED <<mainPc, proc, config, client, secret, logins, receivers, registered, reg, pass, wg,
                 leasePc, leaseRet, watcher, renewed, refreshPc, timer, late>>

\* The caller's wg.Wait() returns.
Wait ==
  /\ proc = "up"
  /\ mainPc = "returned"
  /\ wg = 0
  /\ mainPc' = "waited"
  /\ UNCHANGED <<proc, config, client, secret, logins, receivers, registered, reg, pass, cancelled,
                 wg, leasePc, leaseRet, watcher, renewed, refreshPc, timer, late>>

\* -------------------------------------------------------------- renewAuthToken
\* Mutant: the watcher is not stopped when the loop leaves.
LeaveLeaseNoStop(ret) ==
  /\ leasePc' = "done"
  /\ leaseRet' = ret
  /\ watcher' = watcher
  /\ wg' = wg - 1

\* How the loop leaves: the deferred Stop() and wg.Done() run.
LeaveLease(ret) ==
  /\ leasePc' = "done"
  /\ leaseRet' = ret
  /\ watcher' = "stopped"
  /\ wg' = wg - 1

\* case <-ctx.Done()
LeaseCancel ==
  /\ proc = "up"
  /\ leasePc = "watching"
  /\ cancelled
  /\ LeaveLease("nil")
  /\ UNCHANGED <<mainPc, proc, config, client, secret, logins, receivers, registered, reg, pass,
                 cancelled, renewed, refreshPc, timer, late>>

\* The watcher's Start goroutine gives up and sends its result on DoneCh
\* (buffered): an error when renewal failed, nil when the lease is not
\* renewable or is about to expire.
WatcherEnd(err) ==
  /\ proc = "up"
  /\ leasePc = "watching"
  /\ watcher = "running"
  /\ watcher' = IF err = "err" THEN "failed" ELSE "ended"
  /\ UNCHANGED <<mainPc, proc, config, client, secret, logins, receivers, registered, reg, pass,
                 cancelled, wg, leasePc, leaseRet, renewed, refreshPc, timer, late>>

\* Mutant: the error received from DoneCh is logged and nil is returned.
DoneChReturnNil(w) == "nil"

\* return err, with err as received from DoneCh.
DoneChReturn(w) == IF w = "failed" THEN "err" ELSE "nil"

\* case err := <-authTokenWatcher.DoneCh(): return err (nil or not).
LeaseDone ==
  /\ proc = "up"
  /\ leasePc = "watching"
  /\ watcher \in {"ended", "failed"}
  /\ LeaveLease(DoneChReturn(watcher))
  /\ UNCHANGED <<mainPc, proc, config, client, secret, logins, receivers, registered, reg, pass,
                 cancelled, renewed, refreshPc, timer, late>>

\* Mutant: a renewal event binds the renewed token to the client.
LeaseRenewRebinds ==
  /\ proc = "up"
  /\ leasePc = "watching"
  /\ watcher = "running"
  /\ renewed' = TRUE
  /\ client' = [client EXCEPT !.token = "renewed"]
  /\ UNCHANGED <<mainPc, proc, config, secret, logins, receivers, registered, reg, pass,
                 cancelled, wg, leasePc, leaseRet, watcher, refreshPc, timer, late>>

\* Mutant: a renewal event makes the loop return.
LeaseRenewReturns ==
  /\ proc = "up"
  /\ leasePc = "watching"
  /\ watcher = "running"
  /\ renewed' = TRUE
  /\ LeaveLease("nil")
  /\ UNCHANGED <<mainPc, proc, config, client, secret, logins, receivers, registered, reg, pass,
                 cancelled, refreshPc, timer, late>>

\* case info := <-authTokenWatcher.RenewCh(): log and loop.
LeaseRenew ==
  /\ proc = "up"
  /\ leasePc = "watching"
  /\ watcher = "running"
  /\ renewed' = TRUE
  /\ UNCHANGED <<mainPc, proc, config, client, secret, logins, receivers, registered, reg, pass,
                 cancelled, wg, leasePc, leaseRet, watcher, refreshPc, timer, late>>

\* ---------------------------------------------------------------- renewSecrets
\* A second passes while the timer runs.
Tick ==
  /\ proc = "up"
  /\ refreshPc = "idle"
  /\ timer > 0
  /\ timer' = timer - 1
  /\ UNCHANGED <<mainPc, proc, config, client, secret, logins, receivers, registered, reg, pass,
                 cancelled, wg, leasePc, leaseRet, watcher, renewed, refreshPc, late>>

\* case <-ctx.Done(): return nil (wg.Done() is deferred).
RefreshCancel ==
  /\ proc = "up"
  /\ refreshPc = "idle"
  /\ cancelled
  /\ refreshPc' = "done"
  /\ wg' = wg - 1
  /\ UNCHANGED <<mainPc, proc, config, client, secret, logins, receivers, registered, reg, pass,
                 cancelled, leasePc, leaseRet, watcher, renewed, timer, late>>

\* The select takes timer.C although ctx.Done() may be closed as well (Go
\* chooses among the ready cases at random): one more pass begun late.
LateStart(l, c) == IF ~c THEN l ELSE IF l = "none" THEN "one" ELSE "many"

\* case <-timer.C: call renewSecretPaths.
RefreshTimer ==
  /\ proc = "up"
  /\ refreshPc = "idle"
  /\ timer = 0
  /\ refreshPc' = "refreshing"
  /\ pass' = [pass EXCEPT !["refresh"] = BeginPass(receivers)]
  /\ late' = LateStart(late, cancelled)
  /\ UNCHANGED <<mainPc, proc, config, client, secret, logins, receivers, registered, reg,
                 cancelled, wg, leasePc, leaseRet, watcher, renewed, timer>>

\* renewSecretPaths has returned: timer.Reset(sleepDuration), back to select.
RefreshReset ==
  /\ proc = "up"
  /\ refreshPc = "refreshing"
  /\ PassOver("refresh")
  /\ refreshPc' = "idle"
  /\ timer' = config.period
  /\ pass' = [pass EXCEPT !["refresh"] = NoPass]
  /\ UNCHANGED <<mainPc, proc, config, client, secret, logins, receivers, registered, reg,
                 cancelled, wg, leasePc, leaseRet, watcher, renewed, late>>

\* ---------------------------------------------------------------- properties
Range(seq) == {seq[i] : i \in 1..Len(seq)}
Count(seq, c) == Cardinality({i \in 1..Len(seq) : seq[i] = c})
CallsFor(calls, name) == SelectSeq(calls, LAMBDA c : c.name = name)
OnePerConsumer(list, id, f) ==
  [i \in 1..Len(list) |->
     [receiver |-> list[i], id |-> id, name |-> f.name, value |-> f.value]]
LoopsStarted == leasePc # "none" \/ refreshPc # "none"
\* New has been called and the process has not died since, or died in New.
NewCalled == (proc = "up" /\ mainPc # "start") \/ proc = "panicConfig"

\* C1: Run does not return before the initial pass is over: once Run has
\* returned, every location that was registered when Run was called has had its
\* read and the dispatch of all its fields.
C1_RunReturnsAfterInitialPass ==
  mainPc \in {"returned", "waited"} => pass["main"].owed = {}

\* Run has returned after an initial pass that visited a registered location.
C1_Witness ==
  /\ mainPc = "returned"
  /\ pass["main"].visited
  /\ pass["main"].owed = {}

\* C2: in one dispatch of location L (no registration for L arriving meanwhile),
\* the calls made for each field already dispatched are exactly one per entry
\* of L's list, in list order, each with id = L and that field's name and value;
\* no call is made for a field not yet dispatched, and none to anybody else.
C2_DispatchOncePerFieldInOrder ==
  \A t \in Threads :
    (pass[t].active /\ pass[t].path # "none" /\ ~pass[t].grew) =>
      LET p == pass[t]
          list == receivers[p.path]
      IN /\ \A k \in 1..Len(p.fields) :
              CallsFor(p.calls, p.fields[k].name) =
                IF k < p.fi THEN OnePerConsumer(list, p.path, p.fields[k]) ELSE <<>>
         /\ Len(p.calls) = (p.fi - 1) * Len(list)

\* A dispatch of two fields to a location with two registered consumers is over.
C2_Witness ==
  \E t \in Threads :
    /\ BodyDone(t)
    /\ pass[t].path # "none"
    /\ ~pass[t].grew
    /\ Len(pass[t].fields) = 2
    /\ Len(receivers[pass[t].path]) = 2
    /\ Len(pass[t].calls) = 4

\* C3 (as claimed): once both loops have terminated, no UpdateSecret callback
\* is invoked any more.
C3_Claim ==
  [][(leasePc = "done" /\ refreshPc = "done") =>
       \A t \in Threads : Len(pass'[t].calls) <= Len(pass[t].calls)]_vars

\* C4 (as claimed): two refresh passes are never in progress at the same time.
C4_Claim == ~(pass["main"].active /\ pass["refresh"].active)

\* C5 (as claimed): when every RegisterUpdateSecret call has returned, each
\* location's list holds each consumer as many times as it was registered.
C5_Claim ==
  (proc = "up" /\ \A r \in Regs : reg[r].pc = "idle") =>
    \A l \in Locs, c \in Consumers : Count(receivers[l], c) = registered[l][c]

\* C6 (as claimed): every setSecret for L that begins after
\* RegisterUpdateSecret(L, C) has returned invokes C, and a setSecret for L only
\* invokes consumers that have been registered for L.
C6_Claim ==
  [][\A t \in Threads :
       (pass[t].active /\ pass'[t].active /\ pass'[t].path = pass[t].path
          /\ pass'[t].fi = pass[t].fi + 1) =>
         LET new == {pass'[t].calls[i].receiver :
                       i \in (Len(pass[t].calls) + 1)..Len(pass'[t].calls)}
         IN \A c \in Consumers :
              /\ registered[pass[t].path][c] > 0 => c \in new
              /\ c \in new => c \in Range(receivers[pass[t].path])]_vars

\* C7 (as claimed): a failed read of one location does not abort the pass; the
\* pass goes on with the other locations, so no failed read ends the process.
C7_Claim == proc # "panicSecret"

\* C8 (as claimed): with no configuration (the file is missing or cannot be
\* decoded) New returns an error and no Agent.
C8_Claim ==
  (NewCalled /\ (~config.present \/ config = ZeroConfig)) => mainPc = "newErr"

\* C9: with an authentication method that is none of approle, ldap, userpass,
\* New returns an error and no Agent, and no login was made.
C9_UnknownMethodFailsFast ==
  (NewCalled /\ config.present /\ config.authMethod \notin KnownMethods) =>
    /\ mainPc = "newErr"
    /\ logins = 0
    /\ secret = "nil"
    /\ ~LoopsStarted

\* New has failed on the method "kerberos", after creating the client.
C9_Witness ==
  /\ mainPc = "newErr"
  /\ config.authMethod = "kerberos"
  /\ client.created

\* C10 (as claimed): the loops start only after a login whose token is bound to
\* the client, and when loading the configuration, the login or the token
\* extraction fails, New returns an error and no Agent and no loop starts.
C10_Claim ==
  /\ LoopsStarted => (logins > 0 /\ secret # "nil" /\ client.token # "")
  /\ (NewCalled /\ (~config.present \/ secret = "nil" \/ client.token = "")) =>
       (mainPc = "newErr" /\ ~LoopsStarted)

\* A step of the secret refresh loop (renewSecrets and the pass it runs).
RefreshStep ==
  \/ Tick
  \/ RefreshCancel
  \/ RefreshTimer
  \/ RefreshReset
  \/ PassRead("refresh", Values)
  \/ PassCall("refresh")

\* C11: when the watcher has sent an error on DoneCh and the lease loop takes
\* it, the loop returns that error (not nil) and stops the watcher, and the step
\* leaves the refresh loop as it was; the refresh loop only ever terminates on
\* cancellation, and after the lease loop has returned an error it can still
\* take its next step (timer, pass, reset).
C11_FailureEndsOnlyLeaseLoop ==
  /\ [][(watcher = "failed" /\ leasePc' = "done") =>
          /\ ~cancelled => leaseRet' = "err"
          /\ watcher' = "stopped"
          /\ UNCHANGED <<refreshPc, timer, pass, cancelled, late>>]_vars
  /\ [][(refreshPc # "done" /\ refreshPc' = "done") => cancelled]_vars
  /\ []((leaseRet = "err" /\ refreshPc \in {"idle", "refreshing"}) => ENABLED RefreshStep)

\* The lease loop has returned the watcher's error, the context is not
\* cancelled, and a periodic pass is dispatching to a consumer.
C11_Witness ==
  /\ leasePc = "done"
  /\ leaseRet = "err"
  /\ watcher = "stopped"
  /\ ~cancelled
  /\ refreshPc = "refreshing"
  /\ pass["refresh"].calls # <<>>

\* C12 (as claimed): when a refresh pass completes, at least the whole period
\* lies between that moment and the start of the next pass: the refresh loop,
\* if it is waiting, has its full period still to wait (the timer counts the
\* seconds left before the next pass may start).
C12_Claim ==
  [][\A t \in Threads :
       (pass[t].active /\ ~pass'[t].active /\ proc' = "up" /\ refreshPc' = "idle")
         => timer' = config.period]_vars

\* The calls of a dispatch that has handed its first n fields to setSecret,
\* field by field.
RECURSIVE FieldMajor(_, _, _, _)
FieldMajor(list, id, fields, n) ==
  IF n = 0 THEN <<>>
  ELSE FieldMajor(list, id, fields, n - 1) \o OnePerConsumer(list, id, fields[n])

\* C13 (as claimed): in one dispatch the callbacks are consumer-major: of two
\* different consumers of the location, no callback of the later-registered one
\* precedes a callback of the earlier-registered one.
C13_Claim ==
  \A t \in Threads :
    (pass[t].active /\ pass[t].path # "none" /\ ~pass[t].grew) =>
      LET list == receivers[pass[t].path]
          calls == pass[t].calls
      IN \A m, n \in 1..Len(list) :
           (m < n /\ list[m] # list[n]
              /\ Count(list, list[m]) = 1 /\ Count(list, list[n]) = 1) =>
             \A i, j \in 1..Len(calls) :
               i < j => ~(calls[i].receiver = list[n] /\ calls[j].receiver = list[m])

\* C13 (amended): in one dispatch the callbacks are field-major: the fields are
\* taken in the order the read returned them and, for each field, every entry
\* of the location's list is called in registration order before the next
\* field is taken.
C13_FieldMajorOrder ==
  \A t \in Threads :
    (pass[t].active /\ pass[t].path # "none" /\ ~pass[t].grew) =>
      pass[t].calls = FieldMajor(receivers[pass[t].path], pass[t].path,
                                 pass[t].fields, pass[t].fi - 1)

\* A dispatch of two fields to two different consumers is over: the second
\* call is the first field going to the second consumer.
C13_Witness ==
  \E t \in Threads :
    /\ BodyDone(t)
    /\ pass[t].path # "none"
    /\ ~pass[t].grew
    /\ Len(pass[t].fields) = 2
    /\ receivers[pass[t].path] = <<"A", "B">>
    /\ Len(pass[t].calls) = 4
    /\ pass[t].calls[2].receiver = "B"
    /\ pass[t].calls[2].name = pass[t].fields[1].name
    /\ pass[t].calls[3].receiver = "A"

\* C14 (as claimed): at most one periodic pass begins after the cancellation
\* was raised.
C14_Claim == late # "many"

\* C15: the lease loop leaves Watching only by returning, and only when the
\* context is cancelled or the watcher has sent its terminal result on DoneCh;
\* a renewal event is handled in Watching and leaves the loop in Watching with
\* the watcher running and nothing returned; the loop never returns without
\* having been in Watching.
C15_LeaseLoopExits ==
  [][/\ (leasePc = "watching" /\ leasePc' # "watching" /\ proc' = "up") =>
          (leasePc' = "done" /\ (cancelled \/ watcher \in {"ended", "failed"}))
     /\ (renewed' # renewed /\ proc' = "up") =>
          /\ leasePc = "watching"
          /\ leasePc' = "watching"
          /\ watcher' = "running"
          /\ leaseRet' = "none"
     /\ (leasePc # "done" /\ leasePc' = "done") => leasePc = "watching"]_vars

\* A renewal event has been handled and the loop is still watching, with the
\* context not cancelled.
C15_Witness ==
  /\ leasePc = "watching"
  /\ renewed
  /\ watcher = "running"
  /\ leaseRet = "none"
  /\ ~cancelled

\* C16: when the context is cancelled and the watcher has sent no terminal
\* result, the lease loop can only leave by returning nil, and it stops the
\* watcher and signals the WaitGroup, whether or not it has handled renewal
\* events; whenever the loop has returned, the watcher is stopped.
C16_CancelStopsWatcher ==
  /\ [][(leasePc = "watching" /\ watcher = "running" /\ leasePc' = "done") =>
          /\ cancelled
          /\ leaseRet' = "nil"
          /\ watcher' = "stopped"
          /\ wg' = wg - 1
          /\ renewed' = renewed]_vars
  /\ [](leasePc = "done" => watcher = "stopped")

\* The loop has handled a renewal event, then the context was cancelled and
\* the loop has returned nil with the watcher stopped.
C16_Witness ==
  /\ cancelled
  /\ renewed
  /\ leasePc = "done"
  /\ leaseRet = "nil"
  /\ watcher = "stopped"

\* C17: a RegisterUpdateSecret(L, C) call that no other registration overlaps
\* puts C at the end of L's list (a list of one when L had none), also when C
\* is in the list already, keeps the entries that were there in their order,
\* and leaves every other location's list as it was.
C17_RegisterAppends ==
  [][\A l \in Locs, c \in Consumers :
       registered'[l][c] = registered[l][c] + 1 =>
         /\ Len(receivers'[l]) = Len(receivers[l]) + 1
         /\ receivers'[l][Len(receivers'[l])] = c
         /\ SubSeq(receivers'[l], 1, Len(receivers[l])) = receivers[l]
         /\ \A k \in Locs \ {l} : receivers'[k] = receivers[k]]_vars

\* The same consumer was registered twice for a location, and a dispatch of a
\* field of that location has called it twice.
C17_Witness ==
  \E t \in Threads, l \in Locs, c \in Consumers :
    /\ registered[l][c] = 2
    /\ receivers[l] = <<c, c>>
    /\ BodyDone(t)
    /\ pass[t].path = l
    /\ ~pass[t].grew
    /\ Len(pass[t].fields) = 1
    /\ Len(pass[t].calls) = 2
    /\ pass[t].calls[1].receiver = c
    /\ pass[t].calls[2].receiver = c

\* C18: once New has returned, no step of the running process (Run,
\* RegisterUpdateSecret, the lease loop with its renewal events, the refresh
\* loop and its passes, cancel, Wait) changes a.secret, the client or its
\* token, and no further login is made: the loops run with the session and
\* token of New's one login.
C18_SessionWrittenOnce ==
  /\ [][(mainPc # "start" /\ proc' = "up") => UNCHANGED <<secret, client, logins>>]_vars
  /\ [](LoopsStarted => (secret = "lease" /\ client.token = "tok" /\ logins = 1))

\* Run has returned, a consumer is registered, a renewal event has been
\* handled and a periodic pass is dispatching; session and token are New's.
C18_Witness ==
  /\ mainPc = "returned"
  /\ renewed
  /\ \E l \in Locs : receivers[l] # <<>>
  /\ refreshPc = "refreshing"
  /\ pass["refresh"].calls # <<>>
  /\ secret = "lease"
  /\ client.token = "tok"

\* C19: Run does not wait for the loops: with the context never cancelled and
\* both loops running for ever, a Run whose reads and callbacks return comes
\* to its return (unless the process dies on the way).
C19_RunTerminates == (mainPc = "run") ~> (mainPc = "returned" \/ proc # "up")

\* Run has returned while the context is not cancelled, both goroutines are
\* still running and the WaitGroup still counts them.
C19_Witness ==
  /\ mainPc = "returned"
  /\ pass["main"].visited
  /\ ~cancelled
  /\ leasePc = "watching"
  /\ refreshPc \in {"idle", "refreshing"}
  /\ wg = 2

\* C20: outside renewSecretPaths a thread holds no secret data (no location,
\* no field, no call in progress), and every call made during a pass carries
\* the location being dispatched and the name and value of a field that this
\* pass's read of that location returned.
C20_NoCachedValue ==
  \A t \in Threads :
    /\ ~pass[t].active =>
         (pass[t].path = "none" /\ pass[t].fields = <<>> /\ pass[t].calls = <<>>)
    /\ pass[t].active =>
         \A i \in 1..Len(pass[t].calls) :
           /\ pass[t].calls[i].id = pass[t].path
           /\ \E k \in 1..(pass[t].fi - 1) :
                /\ pass[t].fields[k].name = pass[t].calls[i].name
                /\ pass[t].fields[k].value = pass[t].calls[i].value

\* Two passes have read the same location and got different values for the
\* same field; each has delivered the value of its own read.
C20_Witness ==
  /\ pass["main"].active
  /\ pass["refresh"].active
  /\ pass["main"].path = pass["refresh"].path
  /\ pass["main"].calls # <<>>
  /\ pass["refresh"].calls # <<>>
  /\ pass["main"].calls[1].name = pass["refresh"].calls[1].name
  /\ pass["main"].calls[1].value = "v1"
  /\ pass["refresh"].calls[1].value = "v2"

\* ------------------------------------------------------------ specifications
\* Races: any configuration outcome, two goroutines registering at any time,
\* both loops, cancellation at any time; the lease watcher stays silent.
Next ==
  \/ New({"userpass", "kerberos"}, {1})
  \/ \E r \in Regs, id \in Locs, receiver \in Consumers : RegLoad(r, id, receiver)
  \/ \E r \in Regs : RegStore(r)
  \/ \E r \in Regs : RegThrow(r)
  \/ \E t \in Threads : PassRead(t, {"v1"})
  \/ \E t \in Threads : PassCall(t)
  \/ RunStart
  \/ RunReturn
  \/ Cancel
  \/ Wait
  \/ LeaseCancel
  \/ Tick
  \/ RefreshCancel
  \/ RefreshTimer
  \/ RefreshReset

Spec == Init /\ [][Next]_vars

\* Registration and dispatch: one goroutine registers (before, during and
\* after Run) either consumer for L1 and consumer A for L2, the store returns
\* any fields, the context is never cancelled and the lease watcher stays
\* silent.
NextDispatch ==
  \/ New({"userpass"}, {1})
  \/ \E receiver \in Consumers : RegLoad("r1", "L1", receiver)
  \/ RegLoad("r1", "L2", "A")
  \/ RegStore("r1")
  \/ RegThrow("r1")
  \/ \E t \in Threads : PassRead(t, {"v1"})
  \/ \E t \in Threads : PassCall(t)
  \/ RunStart
  \/ RunReturn
  \/ Tick
  \/ RefreshTimer
  \/ RefreshReset

SpecDispatch == Init /\ [][NextDispatch]_vars

\* Construction and start-up: every configuration outcome and authentication
\* method, an empty registry, both loops, cancellation at any time.
NextNew ==
  \/ New(AuthMethods, {1})
  \/ RunStart
  \/ RunReturn
  \/ Cancel
  \/ Wait
  \/ LeaseCancel
  \/ \E err \in {"nil", "err"} : WatcherEnd(err)
  \/ LeaseDone
  \/ LeaseRenew
  \/ Tick
  \/ RefreshCancel
  \/ RefreshTimer
  \/ RefreshReset

SpecNew == Init /\ [][NextNew]_vars
\* The two loops: one consumer registered for one location (before, during
\* and after Run), every watcher event, cancellation at any time.
NextLoops ==
  \/ New({"userpass"}, Periods)
  \/ RegLoad("r1", "L1", "A")
  \/ RegStore("r1")
  \/ RegThrow("r1")
  \/ \E t \in Threads : PassRead(t, {"v1"})
  \/ \E t \in Threads : PassCall(t)
  \/ RunStart
  \/ RunReturn
  \/ Cancel
  \/ Wait
  \/ LeaseCancel
  \/ \E err \in {"nil", "err"} : WatcherEnd(err)
  \/ LeaseDone
  \/ LeaseRenew
  \/ Tick
  \/ RefreshCancel
  \/ RefreshTimer
  \/ RefreshReset

SpecLoops == Init /\ [][NextLoops]_vars
\* The context is never cancelled and the watcher never gives up: both loops
\* run for ever.  The goroutine that called Run is scheduled (weak fairness on
\* its steps: each read returns, each callback returns, Run returns); nothing
\* is assumed about the two loops.
NextRun ==
  \/ New({"userpass"}, {1})
  \/ RegLoad("r1", "L1", "A")
  \/ RegStore("r1")
  \/ RegThrow("r1")
  \/ \E t \in Threads : PassRead(t, {"v1"})
  \/ \E t \in Threads : PassCall(t)
  \/ RunStart
  \/ RunReturn
  \/ LeaseRenew
  \/ Tick
  \/ RefreshTimer
  \/ RefreshReset

SpecRun ==
  /\ Init
  /\ [][NextRun]_vars
  /\ WF_vars(PassRead("main", {"v1"}))
  /\ WF_vars(PassCall("main"))
  /\ WF_vars(RunReturn)
\* Secret values: one consumer registers for either location; the store holds
\* one value when Run reads it and another when the refresh loop does.
NextValues ==
  \/ New({"userpass"}, {1})
  \/ \E id \in Locs : RegLoad("r1", id, "A")
  \/ RegStore("r1")
  \/ RegThrow("r1")
  \/ PassRead("main", {"v1"})
  \/ PassRead("refresh", {"v2"})
  \/ \E t \in Threads : PassCall(t)
  \/ RunStart
  \/ RunReturn
  \/ Tick
  \/ RefreshTimer
  \/ RefreshReset

SpecValues == Init /\ [][NextValues]_vars
====
